---- MODULE Spec2Model ----
(***************************************************************************)
(* A model of file_sync.py: the one-way, size-based directory sync        *)
(* (sync_copy), the two report writers and the command-line driver (main). *)
(*                                                                         *)
(* The two directory trees are functions from a small universe of         *)
(* relative paths to entries (absent, directory, regular file, symbolic    *)
(* link).  A path is the sequence of its components, so os.path.join is    *)
(* Append and os.path.relpath(join(base, x), base) is x.  The source and   *)
(* the destination are disjoint trees; the destination initially holds no  *)
(* symbolic links of its own (it gets the links sync_copy copies).         *)
(***************************************************************************)
EXTENDS Integers, Sequences, FiniteSets, TLC

-----------------------------------------------------------------------------
(* Bounds of the model *)

\* longest file content, in bytes
MaxLen == 1
\* number of sync_copy calls made one after the other on the same trees
MaxRuns == 2
\* longest result list of any content handed to write_report on its own
MaxList == 2
\* longest list of new files handed to write_report on its own
MaxCount == 11

-----------------------------------------------------------------------------
(* The file system *)

ROOT == <<>>

\* relative paths below either root: a, d and d/b
Paths == {<<"a">>, <<"d">>, <<"d", "b">>}

Bytes == {"x", "y"}

Data == UNION {[1..n -> Bytes] : n \in 0..MaxLen}

Parent(p) == SubSeq(p, 1, Len(p) - 1)

NoEntry == [k |-> "none", data |-> <<>>, r |-> TRUE, to |-> ROOT]

DirEntry == [k |-> "dir", data |-> <<>>, r |-> TRUE, to |-> ROOT]

\* a regular file with its bytes; r: the caller may open it for reading
FileEntry(d, r) == [k |-> "file", data |-> d, r |-> r, to |-> ROOT]

\* a symbolic link whose text names the path q relative to the tree it is in
LinkEntry(q) == [k |-> "link", data |-> <<>>, r |-> TRUE, to |-> q]

\* the bytes of a file that cannot be read are never seen, only their
\* number: one content of each length stands for all
Filler(n) == [i \in 1..n |-> "x"]

SrcEntries ==
    {NoEntry, DirEntry}
        \cup {FileEntry(d, TRUE) : d \in Data}
        \cup {FileEntry(Filler(n), FALSE) : n \in 0..MaxLen}
        \cup {LinkEntry(q) : q \in Paths}

DstEntries == {NoEntry, DirEntry} \cup {FileEntry(d, TRUE) : d \in Data}

\* an entry exists only inside a directory
WellFormed(rootKind, t) ==
    \A p \in Paths :
        t[p].k # "none" =>
            IF Len(p) = 1 THEN rootKind = "dir" ELSE t[Parent(p)].k = "dir"

EmptyTree == [p \in Paths |-> NoEntry]

-----------------------------------------------------------------------------
(* Library calls the program makes *)

RECURSIVE Follow(_, _, _)
\* the entry a path resolves to, following symbolic links; a dangling link or
\* a loop of links resolves to nothing
Follow(t, p, n) ==
    IF t[p].k # "link" THEN t[p]
    ELSE IF n = 0 THEN NoEntry
    ELSE Follow(t, t[p].to, n - 1)

Resolve(t, p) == Follow(t, p, Cardinality(Paths))

\* os.path.exists: follows links, False for a dangling link
Exists(t, p) == Resolve(t, p).k # "none"

\* os.path.isdir: follows links
IsDir(t, p) == Resolve(t, p).k = "dir"

\* os.path.islink
IsLink(t, p) == t[p].k = "link"

NoSize == 0 - 1

\* os.path.getsize with the OSError handler around it: stat follows links;
\* NoSize stands for None.  dirsz is the size the platform reports for a
\* directory.
GetSize(t, p, dirsz) ==
    LET e == Resolve(t, p)
    IN  CASE e.k = "file" -> Len(e.data)
          [] e.k = "dir" -> dirsz
          [] OTHER -> NoSize

DirSizes == 0..(MaxLen + 1)

RECURSIVE PathStr(_)
\* the string form of a relative path
PathStr(p) ==
    IF Len(p) = 0 THEN "."
    ELSE IF Len(p) = 1 THEN p[1]
    ELSE PathStr(Parent(p)) \o "/" \o p[Len(p)]

NameErrorMsg == "name 'false' is not defined"

FileExistsMsg == "[Errno 17] File exists"

PermissionMsg == "[Errno 13] Permission denied"

NotFoundMsg == "[Errno 2] No such file or directory"

ELoopMsg == "[Errno 40] Too many levels of symbolic links"

\* what str(e) can be for an exception caught in the loop over files (the
\* path Python appends to an OSError's text is left out)
Messages == {NameErrorMsg, FileExistsMsg, PermissionMsg, NotFoundMsg, ELoopMsg}

RECURSIVE OpenTarget(_, _, _)
\* the path open(path, "wb") writes: the end of the chain of links at p;
\* ROOT when the chain loops
OpenTarget(t, p, n) ==
    IF t[p].k # "link" THEN p
    ELSE IF n = 0 THEN ROOT
    ELSE OpenTarget(t, t[p].to, n - 1)

\* shutil.copy2(src_path, dst_path, follow_symlinks=False) for the entry at p
\* of tree s into tree d (whose root is a directory): a link is recreated by
\* os.symlink, which fails if anything is at the destination path; a regular
\* file is opened for reading, then the destination is opened for writing
\* (through a dangling link, if one is there) and the bytes are copied.
Copy2(s, d, p) ==
    IF IsLink(s, p)
    THEN IF d[p].k # "none"
         THEN [ok |-> FALSE, msg |-> FileExistsMsg, dst |-> d]
         ELSE [ok |-> TRUE, msg |-> "", dst |-> [d EXCEPT ![p] = LinkEntry(s[p].to)]]
    ELSE IF ~s[p].r
    THEN [ok |-> FALSE, msg |-> PermissionMsg, dst |-> d]
    ELSE LET q == OpenTarget(d, p, Cardinality(Paths))
         IN  IF q = ROOT
             THEN [ok |-> FALSE, msg |-> ELoopMsg, dst |-> d]
             ELSE IF Len(q) > 1 /\ d[Parent(q)].k # "dir"
             THEN [ok |-> FALSE, msg |-> NotFoundMsg, dst |-> d]
             ELSE [ok |-> TRUE, msg |-> "",
                   dst |-> [d EXCEPT ![q] = FileEntry(s[p].data, TRUE)]]

\* the overwriting call of lines 102 and 105,
\* shutil.copy2(src_path, dst_path, follow_symlinks=false): evaluating the
\* name false raises NameError before copy2 is entered
Copy2Overwrite(s, d, p) == [ok |-> FALSE, msg |-> NameErrorMsg, dst |-> d]

\* f"{os.path.relpath(src_path, src)} -> {e}"
ErrLine(p, msg) == PathStr(p) \o " -> " \o msg

\* os.makedirs(dst_dir, exist_ok=True) for a directory whose parent exists:
\* creates it when absent, accepts a directory (or a link to one), and raises
\* FileExistsError for anything else
MakeDirsOk(rootKind, d, dir) ==
    IF dir = ROOT THEN rootKind # "file"
    ELSE d[dir].k = "none" \/ IsDir(d, dir)

\* MakeDirs that first clears what the destination holds below the directory,
\* as a mirroring sync would
MakeDirsFresh(d, dir) ==
    [p \in Paths |->
        IF p = dir THEN DirEntry
        ELSE IF Len(p) > Len(dir) /\ SubSeq(p, 1, Len(dir)) = dir THEN NoEntry
        ELSE d[p]]

MakeDirs(d, dir) ==
    IF dir = ROOT \/ d[dir].k # "none" THEN d ELSE [d EXCEPT ![dir] = DirEntry]

\* the entries os.scandir lists in a directory
Children(t, dir) == {p \in Paths : Parent(p) = dir /\ t[p].k # "none"}

\* os.walk's split of a directory's entries: is_dir() follows links
WalkDirs(t, dir) == {p \in Children(t, dir) : IsDir(t, p)}

WalkFiles(t, dir) == Children(t, dir) \ WalkDirs(t, dir)

\* WalkInto with followlinks=True: links to directories are walked into too
WalkIntoLinks(t, dir) == WalkDirs(t, dir)

\* followlinks=False: a link to a directory is listed but not walked into
WalkInto(t, dir) == {p \in WalkDirs(t, dir) : ~IsLink(t, p)}

\* the orders in which a set can be listed
Orders(S) ==
    {q \in [1..Cardinality(S) -> S] : \A i, j \in 1..Cardinality(S) : i # j => q[i] # q[j]}

-----------------------------------------------------------------------------
(* sync_copy *)

EmptyResults == [new |-> <<>>, overwritten |-> <<>>, skipped |-> <<>>, errors |-> <<>>]

\* TryFile with the two files compared byte by byte instead of by size
TryFileByContent(s, d, p, dirsz) ==
    IF ~Exists(d, p)
    THEN LET c == Copy2(s, d, p)
         IN  [raised |-> ~c.ok, msg |-> c.msg, list |-> "new", dst |-> c.dst]
    ELSE IF Resolve(s, p).data # Resolve(d, p).data
    THEN LET c == Copy2Overwrite(s, d, p)
         IN  [raised |-> ~c.ok, msg |-> c.msg, list |-> "overwritten", dst |-> c.dst]
    ELSE [raised |-> FALSE, msg |-> "", list |-> "skipped", dst |-> d]

\* the try block of the loop over files (lines 82-109) for the file at p:
\* whether it raised (and str(e)), else the list the file goes to, and the
\* destination tree afterwards
TryFile(s, d, p, dirsz) ==
    IF ~Exists(d, p)
    THEN LET c == Copy2(s, d, p)
         IN  [raised |-> ~c.ok, msg |-> c.msg, list |-> "new", dst |-> c.dst]
    ELSE LET src_size == GetSize(s, p, dirsz)
             dst_size == GetSize(d, p, dirsz)
         IN  IF src_size = NoSize \/ dst_size = NoSize
             THEN LET c == Copy2Overwrite(s, d, p)
                  IN  [raised |-> ~c.ok, msg |-> c.msg, list |-> "overwritten",
                       dst |-> c.dst]
             ELSE IF src_size # dst_size
             THEN LET c == Copy2Overwrite(s, d, p)
                  IN  [raised |-> ~c.ok, msg |-> c.msg, list |-> "overwritten",
                       dst |-> c.dst]
             ELSE [raised |-> FALSE, msg |-> "", list |-> "skipped", dst |-> d]

Record(res, list, entry) == [res EXCEPT ![list] = Append(@, entry)]

\* ProcessOne without the continue of line 87: a file just copied goes on to
\* the size comparison, finds its copy of the same size and is recorded in
\* skipped as well
ProcessOneNoContinue(res, s, d, p, dirsz) ==
    LET t == TryFile(s, d, p, dirsz)
        r == IF t.raised THEN Record(res, "errors", ErrLine(p, t.msg))
             ELSE Record(res, t.list, PathStr(p))
    IN  [res |-> IF ~t.raised /\ t.list = "new" THEN Record(r, "skipped", PathStr(p)) ELSE r,
         dst |-> t.dst,
         msg |-> IF t.raised THEN t.msg ELSE ""]

\* ProcessOne with a handler that records the path of the file alone
ProcessOneBarePath(res, s, d, p, dirsz) ==
    LET t == TryFile(s, d, p, dirsz)
    IN  IF t.raised
        THEN [res |-> Record(res, "errors", PathStr(p)), dst |-> t.dst, msg |-> t.msg]
        ELSE [res |-> Record(res, t.list, PathStr(p)), dst |-> t.dst, msg |-> ""]

\* one iteration of the loop over files (lines 78-111): the try block, and
\* the handler that turns its exception into an entry of errors
ProcessOne(res, s, d, p, dirsz) ==
    LET t == TryFile(s, d, p, dirsz)
    IN  IF t.raised
        THEN [res |-> Record(res, "errors", ErrLine(p, t.msg)), dst |-> t.dst,
              msg |-> t.msg]
        ELSE [res |-> Record(res, t.list, PathStr(p)), dst |-> t.dst, msg |-> ""]

-----------------------------------------------------------------------------
(* State *)

VARIABLES
    srcRoot,    \* what the src argument names: "none", "file" or "dir"
    src,        \* the tree below src
    dstRoot,    \* what the dst argument names
    dst,        \* the tree below dst
    pc,         \* sync_copy: "idle", "walk", "done" (returned) or "raised"
    stack,      \* os.walk: the directories still to be yielded, first first
    pending,    \* the files of the directory being processed, not yet handled
    results,    \* the dict sync_copy builds
    exc,        \* str() of the exception raised by sync_copy or in main
    runs,       \* calls of sync_copy so far
    prev,       \* how the call before the current one ended
    dst0,       \* the destination tree when the current call began
    seen,       \* the file entries os.walk has yielded in the current call
    failed,     \* the files whose try block raised in the current call, each
                \* with str() of its exception
    mpc,        \* main: "none" (not run), "start", "sync", "except", "exit",
                \* "crash"; "unit" when write_report is exercised alone
    repDir,     \* what the report directory is: "default" (dst), "dir",
                \* "absent" or "file"
    report      \* the report file: its kind and its lines

vars ==
    <<srcRoot, src, dstRoot, dst, pc, stack, pending, results, exc, runs, prev,
      dst0, seen, failed, mpc, repDir, report>>

NoReport == [kind |-> "none", lines |-> <<>>]

SrcMissingMsg == "Source not found"

SrcNotDirMsg == "Source is not a directory"

\* the trees sync_copy can be given
Trees(rootKind, entries) ==
    {t \in [Paths -> entries] : WellFormed(rootKind, t)}

SyncIdle ==
    /\ pc = "idle"
    /\ stack = <<>>
    /\ pending = {}
    /\ results = EmptyResults
    /\ exc = ""
    /\ runs = 0
    /\ prev = [outcome |-> "none", results |-> EmptyResults]
    /\ dst0 = dst
    /\ seen = {}
    /\ failed = {}
    /\ report = NoReport

\* sync_copy called directly, on any pair of trees
Init ==
    /\ srcRoot \in {"none", "file", "dir"}
    /\ dstRoot \in {"none", "file", "dir"}
    /\ src \in Trees(srcRoot, SrcEntries)
    /\ dst \in Trees(dstRoot, DstEntries)
    /\ mpc = "none"
    /\ repDir = "default"
    /\ SyncIdle

-----------------------------------------------------------------------------
(* sync_copy, step by step *)

\* lines 52-68: the empty result, the two checks of the source, the start of
\* the walk
Call ==
    /\ pc \in {"idle", "done", "raised"}
    /\ mpc = "none" \/ (mpc = "sync" /\ pc = "idle")
    /\ runs < MaxRuns
    /\ runs' = runs + 1
    /\ prev' = [outcome |-> IF runs = 0 THEN "none" ELSE pc, results |-> results]
    /\ results' = EmptyResults
    /\ dst0' = dst
    /\ seen' = {}
    /\ failed' = {}
    /\ pending' = {}
    /\ IF srcRoot = "none"
       THEN pc' = "raised" /\ exc' = SrcMissingMsg /\ stack' = <<>>
       ELSE IF srcRoot # "dir"
       THEN pc' = "raised" /\ exc' = SrcNotDirMsg /\ stack' = <<>>
       ELSE pc' = "walk" /\ exc' = "" /\ stack' = <<ROOT>>
    /\ UNCHANGED <<srcRoot, src, dstRoot, dst, mpc, repDir, report>>

\* lines 68-75: os.walk yields the next directory, top-down, and the mirrored
\* directory is made; an exception of os.makedirs leaves sync_copy
VisitDir ==
    /\ pc = "walk"
    /\ pending = {}
    /\ stack # <<>>
    /\ LET dir == Head(stack)
       IN  IF MakeDirsOk(dstRoot, dst, dir)
           THEN /\ dst' = MakeDirs(dst, dir)
                /\ dstRoot' = "dir"
                /\ pending' = WalkFiles(src, dir)
                /\ seen' = seen \cup WalkFiles(src, dir)
                /\ \E o \in Orders(WalkInto(src, dir)) : stack' = o \o Tail(stack)
                /\ UNCHANGED <<pc, exc>>
           ELSE /\ pc' = "raised"
                /\ exc' = FileExistsMsg
                /\ UNCHANGED <<dst, dstRoot, pending, seen, stack>>
    /\ UNCHANGED <<srcRoot, src, results, runs, prev, dst0, failed, mpc, repDir,
                   report>>

\* lines 77-111: one file of the current directory
ProcessFile ==
    /\ pc = "walk"
    /\ \E p \in pending, dirsz \in DirSizes :
          LET o == ProcessOne(results, src, dst, p, dirsz)
          IN  /\ dst' = o.dst
              /\ results' = o.res
              /\ failed' = IF o.msg = "" THEN failed ELSE failed \cup {<<p, o.msg>>}
              /\ pending' = pending \ {p}
    /\ UNCHANGED <<srcRoot, src, dstRoot, pc, stack, exc, runs, prev, dst0, seen,
                   mpc, repDir, report>>

\* line 113
Return ==
    /\ pc = "walk"
    /\ pending = {}
    /\ stack = <<>>
    /\ pc' = "done"
    /\ UNCHANGED <<srcRoot, src, dstRoot, dst, stack, pending, results, exc, runs,
                   prev, dst0, seen, failed, mpc, repDir, report>>

NextSync == Call \/ VisitDir \/ ProcessFile \/ Return

Spec == Init /\ [][NextSync]_vars


-----------------------------------------------------------------------------
(* The report writers *)

Digit == <<"0", "1", "2", "3", "4", "5", "6", "7", "8", "9">>

RECURSIVE Dec(_)
\* str(n) for n >= 0, as an f-string formats a count
Dec(n) == IF n < 10 THEN Digit[n + 1] ELSE Dec(n \div 10) \o Digit[(n % 10) + 1]

\* chicago_today_str(): the day the clock shows
Dates == {"2024-03-09", "2024-03-10"}

NewLabel == "  New files:         "

OverwrittenLabel == "  Overwritten files: "

SkippedLabel == "  Skipped files:     "

ErrorsLabel == "  Errors:            "

DateLabel == "Report date (America/Chicago): "

\* the lines write_error_report writes (lines 122-131)
ErrorReportLines(error_message, date_str) ==
    << DateLabel \o date_str,
       "Summary:",
       NewLabel \o "0",
       OverwrittenLabel \o "0",
       SkippedLabel \o "0",
       ErrorsLabel \o "1",
       "",
       "Errors:",
       "  " \o error_message,
       "",
       "End of report" >>

\* ErrorsSection without the test of line 158: the heading is always written
ErrorsSectionAlways(errors) ==
    <<"Errors:">> \o [i \in 1..Len(errors) |-> "  " \o errors[i]] \o <<"">>

\* the block written when errors is not empty (lines 158-162)
ErrorsSection(errors) ==
    IF errors # <<>>
    THEN <<"Errors:">> \o [i \in 1..Len(errors) |-> "  " \o errors[i]] \o <<"">>
    ELSE <<>>

\* the lines write_report writes (lines 141-164)
ReportLines(res, date_str) ==
    LET new_count == Len(res.new)
        overwritten_count == Len(res.overwritten)
        skipped_count == Len(res.skipped)
        errors == res.errors
    IN  << DateLabel \o date_str,
           "Summary:",
           NewLabel \o Dec(new_count),
           OverwrittenLabel \o Dec(overwritten_count),
           SkippedLabel \o Dec(skipped_count),
           ErrorsLabel \o Dec(Len(errors)),
           "" >>
        \o ErrorsSection(errors)
        \o <<"End of report">>

\* os.makedirs(report_directory, exist_ok=True) succeeds unless the path is
\* taken by something that is not a directory
ReportDirOk ==
    IF repDir = "default" THEN dstRoot # "file" ELSE repDir # "file"

\* the report directory made, the report file written
WriteFile(kind, lines) ==
    /\ report' = [kind |-> kind, lines |-> lines]
    /\ IF repDir = "default"
       THEN dstRoot' = "dir" /\ repDir' = repDir
       ELSE repDir' = "dir" /\ dstRoot' = dstRoot

-----------------------------------------------------------------------------
(* main *)

SrcMissingMainMsg == "Source directory does not exist"

NoDestinationMsg == "Cannot create destination directory"

\* main run from the command line: the source may be missing or a file, the
\* destination and the report directory may be taken by a file
InitMain ==
    /\ srcRoot \in {"none", "file", "dir"}
    /\ dstRoot \in {"none", "file", "dir"}
    /\ src \in Trees(srcRoot, SrcEntries)
    /\ dst \in Trees(dstRoot, {NoEntry, DirEntry, FileEntry(<<>>, TRUE)})
    /\ mpc = "start"
    /\ repDir \in {"default", "dir", "absent", "file"}
    /\ SyncIdle

\* lines 184-198: the source validated, the destination made
MainValidate ==
    /\ mpc = "start"
    /\ IF srcRoot = "none"
       THEN mpc' = "except" /\ exc' = SrcMissingMainMsg /\ dstRoot' = dstRoot
       ELSE IF srcRoot # "dir"
       THEN mpc' = "except" /\ exc' = SrcNotDirMsg /\ dstRoot' = dstRoot
       ELSE IF dstRoot = "file"
       THEN mpc' = "except" /\ exc' = NoDestinationMsg /\ dstRoot' = dstRoot
       ELSE mpc' = "sync" /\ exc' = exc /\ dstRoot' = "dir"
    /\ UNCHANGED <<srcRoot, src, dst, pc, stack, pending, results, runs, prev, dst0,
                   seen, failed, repDir, report>>

\* line 201: write_report on what sync_copy returned; an exception of it is
\* caught by main's handler
MainReport ==
    /\ mpc = "sync"
    /\ pc = "done"
    /\ IF ReportDirOk
       THEN /\ \E date_str \in Dates : WriteFile("success", ReportLines(results, date_str))
            /\ mpc' = "exit"
            /\ exc' = exc
       ELSE /\ mpc' = "except"
            /\ exc' = FileExistsMsg
            /\ UNCHANGED <<dstRoot, repDir, report>>
    /\ UNCHANGED <<srcRoot, src, dst, pc, stack, pending, results, runs, prev, dst0,
                   seen, failed>>

\* MainExcept with a handler that prints the error and writes no report
MainExceptNoReport ==
    /\ mpc = "except" \/ (mpc = "sync" /\ pc = "raised")
    /\ mpc' = "exit"
    /\ UNCHANGED <<srcRoot, src, dstRoot, dst, pc, stack, pending, results, exc,
                   runs, prev, dst0, seen, failed, repDir, report>>

\* lines 212-217: the handler of every exception raised in the try block,
\* sync_copy's included; an exception of write_error_report leaves main
MainExcept ==
    /\ mpc = "except" \/ (mpc = "sync" /\ pc = "raised")
    /\ IF ReportDirOk
       THEN /\ \E date_str \in Dates : WriteFile("error", ErrorReportLines(exc, date_str))
            /\ mpc' = "exit"
       ELSE /\ mpc' = "crash"
            /\ UNCHANGED <<dstRoot, repDir, report>>
    /\ UNCHANGED <<srcRoot, src, dst, pc, stack, pending, results, exc, runs, prev,
                   dst0, seen, failed>>

NextMain ==
    MainValidate \/ Call \/ VisitDir \/ ProcessFile \/ Return \/ MainReport \/ MainExcept

SpecMain == InitMain /\ [][NextMain]_vars

-----------------------------------------------------------------------------
(* write_report on its own *)

ResultPaths == {PathStr(p) : p \in {<<"a">>, <<"d", "b">>}}

ResultErrors == {ErrLine(<<"a">>, NameErrorMsg), ErrLine(<<"d", "b">>, FileExistsMsg)}

Lists(S) == UNION {[1..n -> S] : n \in 0..MaxList}

\* lists long enough for a count of two digits
LongLists(S) == {[i \in 1..n |-> x] : x \in S, n \in (MaxList + 1)..MaxCount}

\* any result dict of the shape sync_copy returns
InitReport ==
    /\ srcRoot = "dir"
    /\ dstRoot = "dir"
    /\ src = EmptyTree
    /\ dst = EmptyTree
    /\ mpc = "unit"
    /\ repDir = "dir"
    /\ pc = "done"
    /\ stack = <<>>
    /\ pending = {}
    /\ results \in [new : Lists(ResultPaths) \cup LongLists({PathStr(<<"a">>)}),
                    overwritten : Lists(ResultPaths),
                    skipped : Lists(ResultPaths), errors : Lists(ResultErrors)]
    /\ exc = ""
    /\ runs = 0
    /\ prev = [outcome |-> "none", results |-> EmptyResults]
    /\ dst0 = dst
    /\ seen = {}
    /\ failed = {}
    /\ report = NoReport

\* write_report(results, report_directory, file_name)
WriteReport ==
    /\ mpc = "unit"
    /\ report = NoReport
    /\ \E date_str \in Dates : WriteFile("success", ReportLines(results, date_str))
    /\ UNCHANGED <<srcRoot, src, dst, pc, stack, pending, results, exc, runs, prev,
                   dst0, seen, failed, mpc>>

NextReport == WriteReport

SpecReport == InitReport /\ [][NextReport]_vars


-----------------------------------------------------------------------------
(* Properties of sync_copy *)

\* how often x occurs in the list q
Count(q, x) == Cardinality({i \in DOMAIN q : q[i] = x})

\* how often the file at p is recorded in errors, whatever the message
ErrCount(p) ==
    Cardinality({i \in DOMAIN results.errors :
                    \E m \in Messages : results.errors[i] = ErrLine(p, m)})

Total ==
    Len(results.new) + Len(results.overwritten) + Len(results.skipped)
        + Len(results.errors)

\* the file at p is recorded once, in the given list, and nowhere else
OnlyIn(list, p) ==
    /\ Count(results.new, PathStr(p)) = (IF list = "new" THEN 1 ELSE 0)
    /\ Count(results.overwritten, PathStr(p)) = (IF list = "overwritten" THEN 1 ELSE 0)
    /\ Count(results.skipped, PathStr(p)) = (IF list = "skipped" THEN 1 ELSE 0)
    /\ ErrCount(p) = (IF list = "errors" THEN 1 ELSE 0)

\* C1: when sync_copy returns, the four lists together hold as many entries
\* as the walk enumerated files, and every enumerated file is in exactly one
\* of them, once.
C1_Partition ==
    pc = "done" =>
        /\ Total = Cardinality(seen)
        /\ \A p \in seen : \E list \in {"new", "overwritten", "skipped", "errors"} :
              OnlyIn(list, p)

\* a call returned after enumerating two files, one copied and one in errors
C1_Witness ==
    /\ pc = "done"
    /\ Cardinality(seen) = 2
    /\ Len(results.new) = 1
    /\ Len(results.errors) = 1

\* the file at p was a regular file on both sides when the call began
BothFiles(p) == src[p].k = "file" /\ dst0[p].k = "file"

\* C2: a (readable) file whose size differs from the existing destination
\* file's is recorded in overwritten only, and the destination then holds
\* the source's bytes.
C2_Claim ==
    pc = "done" =>
        \A p \in seen :
            (BothFiles(p) /\ src[p].r /\ Len(src[p].data) # Len(dst0[p].data)) =>
                /\ OnlyIn("overwritten", p)
                /\ dst[p].k = "file"
                /\ dst[p].data = src[p].data

\* C7: a file whose content differs from the existing destination file's but
\* whose size is the same is recorded in skipped only, and the destination
\* file keeps its old bytes.
C7_SameSizeSkipped ==
    pc = "done" =>
        \A p \in seen :
            (/\ BothFiles(p)
             /\ Len(src[p].data) = Len(dst0[p].data)
             /\ src[p].data # dst0[p].data) =>
                /\ OnlyIn("skipped", p)
                /\ dst[p] = dst0[p]

\* a call returned having met a source file of the destination file's size
\* and other bytes
C7_Witness ==
    /\ pc = "done"
    /\ \E p \in seen :
          /\ BothFiles(p)
          /\ Len(src[p].data) = Len(dst0[p].data)
          /\ src[p].data # dst0[p].data

\* C9: when the destination exists and a size lookup fails, the source is
\* copied over the destination, link as link, and the file is recorded in
\* overwritten, not in errors or skipped.  (The lookup fails for a source
\* that is a dangling link; the destination, which exists, has a size.)
C9_Claim ==
    pc = "done" =>
        \A p \in seen :
            (Resolve(dst0, p).k = "file" /\ GetSize(src, p, 0) = NoSize) =>
                /\ OnlyIn("overwritten", p)
                /\ dst[p] = src[p]

FileEntries(t) == {p \in Paths : t[p].k # "none" /\ ~IsDir(t, p)}

PathsOf(t) == {p \in Paths : t[p].k # "none"}

PlainSource == \A p \in Paths : src[p].k \in {"none", "dir"} \/ (src[p].k = "file" /\ src[p].r)

\* C4, for a source of directories and readable regular files: a second call
\* right after a call that returned records every file in skipped, and
\* nothing in new, overwritten or errors.
C4_Claim ==
    (pc = "done" /\ runs = 2 /\ prev.outcome = "done" /\ PlainSource) =>
        /\ \A p \in seen : OnlyIn("skipped", p)
        /\ results.new = <<>>
        /\ results.overwritten = <<>>
        /\ results.errors = <<>>

\* the files of the directories os.walk goes into
Walked(t) ==
    {p \in FileEntries(t) : \A n \in 1..(Len(p) - 1) : t[SubSeq(p, 1, n)].k = "dir"}

\* C5 as claimed: past the two checks of the source sync_copy does not
\* raise, and a file whose try block raised is recorded in errors, as its
\* path, " -> " and the message, and the walk goes on to the end.
C5_Claim ==
    /\ pc = "raised" => exc \in {SrcMissingMsg, SrcNotDirMsg}
    /\ pc \in {"walk", "done"} =>
          \A f \in failed :
              /\ OnlyIn("errors", f[1])
              /\ Count(results.errors, ErrLine(f[1], f[2])) = 1
    /\ pc = "done" => seen = Walked(src)

\* C5, amended: past the two checks of the source, the one exception that
\* leaves sync_copy is that of os.makedirs for a mirrored directory (it is
\* raised between files, when the path is taken by something that is not a
\* directory); a file whose try block raised is recorded in errors, as its
\* path, " -> " and the message, and the walk goes on: when sync_copy
\* returns, every file of every directory walked has been handled.
C5_FailuresRecorded ==
    /\ pc = "raised" =>
          \/ exc \in {SrcMissingMsg, SrcNotDirMsg} /\ srcRoot # "dir"
          \/ /\ exc = FileExistsMsg
             /\ pending = {}
             /\ stack # <<>>
             /\ ~MakeDirsOk(dstRoot, dst, Head(stack))
    /\ pc \in {"walk", "done"} =>
          \A f \in failed :
              /\ OnlyIn("errors", f[1])
              /\ Count(results.errors, ErrLine(f[1], f[2])) = 1
    /\ pc = "done" => seen = Walked(src) /\ pending = {}

\* a call returned after the first of two files failed and the second, in a
\* directory below, was copied
C5_Witness ==
    /\ pc = "done"
    /\ Len(results.errors) = 1
    /\ <<<<"a">>, NameErrorMsg>> \in failed
    /\ results.new = <<PathStr(<<"d", "b">>)>>


-----------------------------------------------------------------------------
(* Properties of main and of the report writers *)

DigitValue(c) == CHOOSE i \in 0..9 : Digit[i + 1] = c

RECURSIVE ParseDec(_)
\* the number a string of digits denotes
ParseDec(str) ==
    IF Len(str) = 0 THEN 0
    ELSE 10 * ParseDec(SubSeq(str, 1, Len(str) - 1))
            + DigitValue(SubSeq(str, Len(str), Len(str)))

\* the count on a summary line that begins with the given label
CountOn(line, label) ==
    IF SubSeq(line, 1, Len(label)) = label
    THEN ParseDec(SubSeq(line, Len(label) + 1, Len(line)))
    ELSE 0 - 1

====
